---- MODULE Spec2Model ----
(***************************************************************************)
(* Pod lifecycle orchestration of kt-connect (package cluster, pod.go):    *)
(* the ref-count annotation manager (IncreasePodRef / DecreasePodRef),     *)
(* alone and with two callers at once, the three bounded-retry waits       *)
(* (waitPodReady, waitPodsReady, waitPodTerminate) and ExecInPod.          *)
(*                                                                         *)
(* Go strings are modelled as sequences of one-character strings so that   *)
(* strconv.Atoi and strconv.Itoa are real conversions.  An error value is  *)
(* the sequence of the parts of its message; the nil error is <<>>.        *)
(***************************************************************************)
EXTENDS Integers, Sequences, FiniteSets, TLC

VARIABLES
    annotations,  \* pod.ObjectMeta.Annotations of the stored pod
    hist,         \* the ref-count calls made so far, oldest first
    pc,           \* "idle", "run" (a wait is between two invocations) or "done"
    fn,           \* the wait that was called
    callTimeout,  \* its timeoutSec argument
    callTimes,    \* the times argument of its next recursive invocation
    gets,         \* Get/List calls the wait has made on the store
    sleeps,       \* time.Sleep calls the wait has made
    clock,        \* seconds the wait has slept in total
    fetchAt,      \* the clock at each Get/List of the wait
    obs,          \* phases seen by the successful Get calls of waitPodReady
    emptyLists,   \* List calls of the wait that returned no item
    last,         \* result of the latest Get/List of the wait
    ret,          \* what the wait returned, once pc = "done"
    race,         \* two IncreasePodRef calls running at once on one pod
    exec          \* one ExecInPod call: what the stream wrote, what came back

vars == <<annotations, hist, pc, fn, callTimeout, callTimes, gets, sleeps, clock,
          fetchAt, obs, emptyLists, last, ret, race, exec>>

refVars == <<annotations, hist>>

waitVars == <<pc, fn, callTimeout, callTimes, gets, sleeps, clock, fetchAt, obs,
              emptyLists, last, ret>>

----------------------------------------------------------------------------
(* Bounds of the model *)

MaxRef == 11       \* greatest ref count a pod starts with
MaxCalls == 3      \* ref-count calls in one history
MaxTimeout == 13   \* greatest timeoutSec passed to a wait
NegTimeout == 5    \* timeoutSec ranges down to -NegTimeout
MaxPods == 2       \* greatest number of pods a List returns
MaxBuf == 3        \* greatest length of what the exec stream writes

----------------------------------------------------------------------------
(* Strings, errors, strconv *)

Nil == <<>>

KtRefCount == "kt-connect/ref-count"

Digits == <<"0", "1", "2", "3", "4", "5", "6", "7", "8", "9">>

IsDigit(c) == \E i \in 1..10 : Digits[i] = c

DigitVal(c) == (CHOOSE i \in 1..10 : Digits[i] = c) - 1

RECURSIVE DigitsVal(_)
DigitsVal(s) ==
    IF s = <<>> THEN 0
    ELSE DigitsVal(SubSeq(s, 1, Len(s) - 1)) * 10 + DigitVal(s[Len(s)])

ErrSyntax(s) == <<"strconv.Atoi: parsing ", s, ": invalid syntax">>

\* strconv.Atoi: an optional sign, then one or more decimal digits.
Atoi(s) ==
    LET signed == s # <<>> /\ s[1] \in {"+", "-"}
        body == IF signed THEN Tail(s) ELSE s
    IN  IF body = <<>> \/ \E i \in 1..Len(body) : ~IsDigit(body[i])
        THEN [val |-> 0, err |-> ErrSyntax(s)]
        ELSE [val |-> IF signed /\ s[1] = "-" THEN 0 - DigitsVal(body)
                      ELSE DigitsVal(body),
              err |-> Nil]

RECURSIVE NatStr(_)
NatStr(n) ==
    IF n < 10 THEN <<Digits[n + 1]>>
    ELSE NatStr(n \div 10) \o <<Digits[(n % 10) + 1]>>

\* strconv.Itoa: decimal digits, "-" first for a negative number.
Itoa(n) == IF n < 0 THEN <<"-">> \o NatStr(0 - n) ELSE NatStr(n)

\* Go's integer division truncates toward zero.
Quot(a, b) == IF a >= 0 THEN a \div b ELSE 0 - ((0 - a) \div b)

----------------------------------------------------------------------------
(* Go maps: a nil map reads as empty; MapPut on a nil map is lost *)

NilMap == [isNil |-> TRUE, kv |-> <<>>]

EmptyMap == [isNil |-> FALSE, kv |-> <<>>]

MapOf(k, v) == [isNil |-> FALSE, kv |-> [x \in {k} |-> v]]

\* m[k]: the zero value "" when the key is absent or the map is nil.
MapGet(m, k) == IF k \in DOMAIN m.kv THEN m.kv[k] ELSE <<>>

\* m[k] = v on a map that is not nil.
MapAssign(m, k, v) ==
    [isNil |-> FALSE, kv |-> [x \in (DOMAIN m.kv) \cup {k} |-> IF x = k THEN v ELSE m.kv[x]]]

\* util.MapPut: a nil m is replaced by a fresh map the caller never sees.
MapPut(m, k, v) == IF m.isNil THEN m ELSE MapAssign(m, k, v)

----------------------------------------------------------------------------
(* The store *)

ErrNotFound(name) == <<"pods ", name, " not found">>

ErrServer == <<"Internal error occurred">>

ErrConflict == <<"the object has been modified">>

IsNotFound(err) == err # Nil /\ err[Len(err)] = " not found" /\ err[1] = "pods "

\* UpdatePod on a store that answers without keeping the write.
UpdatePodNotKept(stored, pod, updErr) == stored

\* UpdatePod: the store takes the whole pod unless the Update fails.
UpdatePod(stored, pod, updErr) == IF updErr = Nil THEN pod ELSE stored

----------------------------------------------------------------------------
(* RefCountManager *)

PodName == "shadow"

\* IncreasePodRef that takes a count it cannot parse for 0 and writes "1".
IncreasePodRefNoParseCheck(ann, getErr, updErr) ==
    IF getErr # Nil
    THEN [cleanup |-> FALSE, err |-> getErr, updates |-> 0, stored |-> ann]
    ELSE LET a == Atoi(MapGet(ann, KtRefCount))
             pod == MapAssign(ann, KtRefCount, Itoa(a.val + 1))
         IN  [cleanup |-> FALSE, err |-> updErr, updates |-> 1,
              stored |-> UpdatePod(ann, pod, updErr)]

\* IncreasePodRef that adds 2 to the count.
IncreasePodRefByTwo(ann, getErr, updErr) ==
    IF getErr # Nil
    THEN [cleanup |-> FALSE, err |-> getErr, updates |-> 0, stored |-> ann]
    ELSE LET a == Atoi(MapGet(ann, KtRefCount))
         IN  IF a.err # Nil
             THEN [cleanup |-> FALSE, err |-> a.err, updates |-> 0, stored |-> ann]
             ELSE LET pod == MapAssign(ann, KtRefCount, Itoa(a.val + 2))
                  IN  [cleanup |-> FALSE, err |-> updErr, updates |-> 1,
                       stored |-> UpdatePod(ann, pod, updErr)]

\* IncreasePodRef, given what GetPod and UpdatePod answer.  The assignment to
\* pod.Annotations is reached only with a count that parsed, so never on a
\* nil map.
IncreasePodRef(ann, getErr, updErr) ==
    IF getErr # Nil
    THEN [cleanup |-> FALSE, err |-> getErr, updates |-> 0, stored |-> ann]
    ELSE LET a == Atoi(MapGet(ann, KtRefCount))
         IN  IF a.err # Nil
             THEN [cleanup |-> FALSE, err |-> a.err, updates |-> 0, stored |-> ann]
             ELSE LET pod == MapAssign(ann, KtRefCount, Itoa(a.val + 1))
                  IN  [cleanup |-> FALSE, err |-> updErr, updates |-> 1,
                       stored |-> UpdatePod(ann, pod, updErr)]

\* decreaseRef: parse the count, take one off, format it again.
decreaseRef(refCount) ==
    LET a == Atoi(refCount)
    IN  IF a.err # Nil THEN [count |-> <<>>, err |-> a.err]
        ELSE [count |-> Itoa(a.val - 1), err |-> Nil]

\* DecreasePodRef without the special case of the last reference: it writes
\* "0" and leaves the cleanup to nobody.
DecreasePodRefBare(ann, getErr, updErr) ==
    IF getErr # Nil
    THEN [cleanup |-> FALSE, err |-> getErr, updates |-> 0, stored |-> ann]
    ELSE LET refCount == MapGet(ann, KtRefCount)
             d == decreaseRef(refCount)
         IN  IF d.err # Nil
             THEN [cleanup |-> FALSE, err |-> Nil, updates |-> 0, stored |-> ann]
             ELSE LET pod == MapPut(ann, KtRefCount, d.count)
                  IN  [cleanup |-> refCount = <<"1">>, err |-> updErr, updates |-> 1,
                       stored |-> UpdatePod(ann, pod, updErr)]

\* DecreasePodRef, given what GetPod and UpdatePod answer.  The named result
\* err is still nil when decreaseRef fails: err2 is a different variable.
DecreasePodRef(ann, getErr, updErr) ==
    IF getErr # Nil
    THEN [cleanup |-> FALSE, err |-> getErr, updates |-> 0, stored |-> ann]
    ELSE LET refCount == MapGet(ann, KtRefCount)
         IN  IF refCount = <<"1">>
             THEN [cleanup |-> TRUE, err |-> Nil, updates |-> 0, stored |-> ann]
             ELSE LET d == decreaseRef(refCount)
                  IN  IF d.err # Nil
                      THEN [cleanup |-> FALSE, err |-> Nil, updates |-> 0, stored |-> ann]
                      ELSE LET pod == MapPut(ann, KtRefCount, d.count)
                           IN  [cleanup |-> FALSE, err |-> updErr, updates |-> 1,
                                stored |-> UpdatePod(ann, pod, updErr)]

RefStrings == {Itoa(n) : n \in 0..MaxRef} \cup {<<"a", "b", "c">>, <<>>}

\* The callers of the concurrent IncreasePodRef calls.
Callers == {"c1", "c2"}

\* No concurrent call has been made.
NoRace ==
    [start |-> NilMap,
     calls |-> [c \in Callers |-> [at |-> "off", pod |-> NilMap, err |-> Nil]]]

\* ExecInPod has not been called.
NoExec ==
    [at |-> "idle", stdout |-> <<>>, stderr |-> <<>>, transportErr |-> Nil,
     ret |-> [stdout |-> <<>>, stderr |-> <<>>, err |-> Nil]]

\* No wait has been called.
WaitIdle ==
    /\ pc = "idle"
    /\ fn = ""
    /\ callTimeout = 0
    /\ callTimes = 0
    /\ gets = 0
    /\ sleeps = 0
    /\ clock = 0
    /\ fetchAt = <<>>
    /\ obs = <<>>
    /\ emptyLists = 0
    /\ last = <<>>
    /\ ret = <<>>

InitRef ==
    /\ annotations \in {NilMap, EmptyMap} \cup {MapOf(KtRefCount, s) : s \in RefStrings}
    /\ hist = <<>>
    /\ WaitIdle
    /\ race = NoRace
    /\ exec = NoExec

\* One call returns: the store holds r.stored and the call joins the history.
Call(op, getErr, updErr, r) ==
    /\ annotations' = r.stored
    /\ hist' = Append(hist, [op |-> op, getErr |-> getErr, before |-> annotations,
                             after |-> r.stored, cleanup |-> r.cleanup, err |-> r.err,
                             updates |-> r.updates])
    /\ UNCHANGED <<waitVars, race, exec>>

Increase ==
    /\ Len(hist) < MaxCalls
    /\ \E getErr \in {Nil, ErrNotFound(PodName)}, updErr \in {Nil, ErrConflict} :
          Call("IncreasePodRef", getErr, updErr,
               IncreasePodRef(annotations, getErr, updErr))

Decrease ==
    /\ Len(hist) < MaxCalls
    /\ \E getErr \in {Nil, ErrNotFound(PodName)}, updErr \in {Nil, ErrConflict} :
          Call("DecreasePodRef", getErr, updErr,
               DecreasePodRef(annotations, getErr, updErr))

NextRef == Increase \/ Decrease

SpecRef == InitRef /\ [][NextRef]_vars

----------------------------------------------------------------------------
(* Two IncreasePodRef calls at once.  A call touches the store twice, in     *)
(* GetPod and in UpdatePod; what it does in between is local to it.          *)

InitRace ==
    /\ annotations \in {NilMap, EmptyMap} \cup {MapOf(KtRefCount, s) : s \in RefStrings}
    /\ hist = <<>>
    /\ WaitIdle
    /\ race = [start |-> annotations,
               calls |-> [c \in Callers |-> [at |-> "get", pod |-> NilMap, err |-> Nil]]]
    /\ exec = NoExec

SetCall(c, at, pod, err) ==
    race' = [race EXCEPT !.calls[c] = [at |-> at, pod |-> pod, err |-> err]]

\* GetPod of caller c, and the parse of the count it read: the call returns
\* here when either fails, and holds its copy of the pod otherwise.
RaceGet(c) ==
    /\ race.calls[c].at = "get"
    /\ \E getErr \in {Nil, ErrNotFound(PodName)} :
          LET r == IncreasePodRef(annotations, getErr, Nil)
          IN  IF r.updates = 0
              THEN SetCall(c, "done", NilMap, r.err)
              ELSE SetCall(c, "update", annotations, Nil)
    /\ UNCHANGED <<annotations, hist, waitVars, exec>>

\* UpdatePod of caller c: the store takes the whole pod the caller holds,
\* with the count of its own copy plus 1, whatever was written meanwhile.
RaceUpdate(c) ==
    /\ race.calls[c].at = "update"
    /\ \E updErr \in {Nil, ErrServer} :
          LET r == IncreasePodRef(race.calls[c].pod, Nil, Nil)
          IN  /\ annotations' = UpdatePod(annotations, r.stored, updErr)
              /\ SetCall(c, "done", race.calls[c].pod, updErr)
    /\ UNCHANGED <<hist, waitVars, exec>>

NextRace == \E c \in Callers : RaceGet(c) \/ RaceUpdate(c)

SpecRace == InitRace /\ [][NextRace]_vars

----------------------------------------------------------------------------
(* ExecBridge.  The text of a buffer is a sequence of tokens: a letter, a    *)
(* blank, a percent sign, one whole colour escape sequence, and the two      *)
(* ends of an embedded error message.                                        *)

Letter == "a"

Blank == " "

Percent == "%"

Esc == "ESC[31m"

ErrOpen == " error=<"

ErrClose == ">"

OutChars == {Letter, Blank, Esc}

ErrChars == {Letter, Blank, Percent, Esc, ErrOpen, ErrClose}

\* Every text of at most n tokens of A.
Bufs(A, n) == UNION {[1..k -> A] : k \in 0..n}

ErrStream == <<"error dialing backend">>

RECURSIVE TrimLeft(_)
TrimLeft(s) == IF s # <<>> /\ s[1] = Blank THEN TrimLeft(Tail(s)) ELSE s

RECURSIVE TrimRight(_)
TrimRight(s) ==
    IF s # <<>> /\ s[Len(s)] = Blank THEN TrimRight(SubSeq(s, 1, Len(s) - 1)) ELSE s

\* strings.TrimSpace: the text without its leading and trailing blanks.
TrimSpace(s) == TrimRight(TrimLeft(s))

\* util.RemoveColor: the text without its colour escape sequences.
RemoveColor(s) == SelectSeq(s, LAMBDA c : c # Esc)

\* The message that starts right after the ErrOpen at i: the tokens up to
\* the next ErrClose, when there is one and no other ErrOpen comes first;
\* empty otherwise.
MessageAt(s, i) ==
    LET ends == {j \in (i + 1)..Len(s) : s[j] \in {ErrOpen, ErrClose}}
    IN  IF s[i] # ErrOpen \/ ends = {} THEN <<>>
        ELSE LET j == CHOOSE k \in ends : \A l \in ends : k <= l
             IN  IF s[j] = ErrClose THEN SubSeq(s, i + 1, j - 1) ELSE <<>>

\* util.ExtractErrorMessage: the first embedded message of the text that is
\* not empty, or "" when it holds none.
ExtractErrorMessage(s) ==
    LET found == {i \in 1..Len(s) : MessageAt(s, i) # <<>>}
    IN  IF found = {} THEN <<>>
        ELSE MessageAt(s, CHOOSE i \in found : \A k \in found : i <= k)

\* The blank is a flag of a fmt verb: it is read over after a percent sign.
RECURSIVE SkipFlags(_)
SkipFlags(s) == IF s # <<>> /\ s[1] = Blank THEN SkipFlags(Tail(s)) ELSE s

\* fmt.Errorf(format) with no operand: the message is the format with every
\* verb carried out.  "%%" gives "%", a verb gives "%!verb(MISSING)", a
\* percent sign at the end gives "%!(NOVERB)".
RECURSIVE Errorf(_)
Errorf(format) ==
    IF format = <<>> THEN <<>>
    ELSE IF format[1] # Percent THEN <<format[1]>> \o Errorf(Tail(format))
    ELSE LET rest == SkipFlags(Tail(format))
         IN  IF rest = <<>> THEN <<"%!(NOVERB)">>
             ELSE IF rest[1] = Percent THEN <<Percent>> \o Errorf(Tail(rest))
             ELSE <<"%!", rest[1], "(MISSING)">> \o Errorf(Tail(rest))

\* ExecInPod that lets the embedded message replace the error of the stream.
ExecInPodPreferMessage(stdout, stderr, transportErr) ==
    LET stdoutMsg == RemoveColor(TrimSpace(stdout))
        stderrMsg == RemoveColor(TrimSpace(stderr))
        rawErrMsg == ExtractErrorMessage(stderrMsg)
    IN  [stdout |-> stdoutMsg, stderr |-> stderrMsg,
         err |-> IF rawErrMsg # <<>> THEN Errorf(rawErrMsg) ELSE transportErr]

\* ExecInPod, given what the stream wrote to the two buffers and the error
\* execute returned.
ExecInPod(stdout, stderr, transportErr) ==
    LET stdoutMsg == RemoveColor(TrimSpace(stdout))
        stderrMsg == RemoveColor(TrimSpace(stderr))
        rawErrMsg == ExtractErrorMessage(stderrMsg)
    IN  [stdout |-> stdoutMsg, stderr |-> stderrMsg,
         err |-> IF transportErr = Nil /\ rawErrMsg # <<>>
                 THEN Errorf(rawErrMsg) ELSE transportErr]

InitExec ==
    /\ annotations = MapOf(KtRefCount, <<"1">>)
    /\ hist = <<>>
    /\ WaitIdle
    /\ race = NoRace
    /\ exec = NoExec

ExecInPodCall ==
    /\ exec.at = "idle"
    /\ \E stdout \in Bufs(OutChars, MaxBuf), stderr \in Bufs(ErrChars, MaxBuf),
          transportErr \in {Nil, ErrStream} :
          exec' = [at |-> "done", stdout |-> stdout, stderr |-> stderr,
                   transportErr |-> transportErr,
                   ret |-> ExecInPod(stdout, stderr, transportErr)]
    /\ UNCHANGED <<refVars, waitVars, race>>

NextExec == ExecInPodCall

SpecExec == InitExec /\ [][NextExec]_vars

----------------------------------------------------------------------------
(* Properties of the RefCountManager *)

RefCount(ann) == MapGet(ann, KtRefCount)

\* s is the decimal form of a non-negative integer.
IsNatString(s) ==
    /\ s # <<>>
    /\ \A i \in 1..Len(s) : IsDigit(s[i])

\* The annotations the first call of the history found.
FirstAnnotations == IF hist = <<>> THEN annotations ELSE hist[1].before

Fetched(i, op) == hist[i].op = op /\ hist[i].getErr = Nil

\* C3: DecreasePodRef on a pod whose ref count is exactly "1" returns
\* cleanup = true and a nil error, calls Update zero times and leaves the
\* stored pod as it was.
C3_LastRefNoWrite ==
    \A i \in 1..Len(hist) :
        (Fetched(i, "DecreasePodRef") /\ RefCount(hist[i].before) = <<"1">>)
            => /\ hist[i].cleanup
               /\ hist[i].err = Nil
               /\ hist[i].updates = 0
               /\ hist[i].after = hist[i].before

C3_Witness ==
    \E i \in 1..Len(hist) :
        /\ Fetched(i, "DecreasePodRef")
        /\ RefCount(hist[i].before) = <<"1">>
        /\ hist[i].cleanup

\* An IncreasePodRef and the DecreasePodRef right after it, both returning
\* no error, the first of them finding the count N.
IncThenDec(i, N) ==
    /\ i + 1 <= Len(hist)
    /\ Fetched(i, "IncreasePodRef") /\ hist[i].err = Nil
    /\ Fetched(i + 1, "DecreasePodRef") /\ hist[i + 1].err = Nil
    /\ RefCount(hist[i].before) = Itoa(N)

\* C4 as stated: for every stored count N >= 0, N = 0 included, an
\* IncreasePodRef followed by a DecreasePodRef leaves the stored count at N.
C4_Original ==
    \A i \in 1..Len(hist), N \in 0..(MaxRef + MaxCalls) :
        IncThenDec(i, N) => RefCount(hist[i + 1].after) = Itoa(N)

\* C4 amended: for every stored count N >= 1 an IncreasePodRef followed by a
\* DecreasePodRef leaves the stored count at N; from N = 0 the pair leaves
\* "1", because the DecreasePodRef finds "1", asks for cleanup and writes
\* nothing.
C4_IncThenDecRestores ==
    \A i \in 1..Len(hist), N \in 0..(MaxRef + MaxCalls) :
        IncThenDec(i, N) =>
            /\ N >= 1 => (RefCount(hist[i + 1].after) = Itoa(N) /\ ~hist[i + 1].cleanup)
            /\ N = 0 => (RefCount(hist[i + 1].after) = <<"1">> /\ hist[i + 1].cleanup)

C4_Witness ==
    \E i \in 1..Len(hist) :
        /\ IncThenDec(i, 9)
        /\ RefCount(hist[i].after) = <<"1", "0">>
        /\ RefCount(annotations) = <<"9">>

\* C5: from a stored count that is a non-negative integer string, no
\* sequence of IncreasePodRef and DecreasePodRef calls makes the stored
\* count anything but a non-negative integer string.
C5_CountStaysNatural ==
    IsNatString(RefCount(FirstAnnotations)) => IsNatString(RefCount(annotations))

\* C6: DecreasePodRef on a count that is non-numeric, absent or "0" returns
\* an error and writes nothing.
C6_BadCountIsError ==
    \A i \in 1..Len(hist) :
        (/\ Fetched(i, "DecreasePodRef")
         /\ \/ ~IsNatString(RefCount(hist[i].before))
            \/ RefCount(hist[i].before) = <<"0">>)
            => /\ hist[i].err # Nil
               /\ hist[i].updates = 0
               /\ hist[i].after = hist[i].before

\* C7: IncreasePodRef on a count that is no integer fails with the parse
\* error of strconv.Atoi and calls Update zero times.
C7_IncreaseParseError ==
    \A i \in 1..Len(hist) :
        (Fetched(i, "IncreasePodRef") /\ Atoi(RefCount(hist[i].before)).err # Nil)
            => /\ hist[i].err = ErrSyntax(RefCount(hist[i].before))
               /\ hist[i].updates = 0
               /\ hist[i].after = hist[i].before

C7_Witness ==
    \E i \in 1..Len(hist) :
        /\ Fetched(i, "IncreasePodRef")
        /\ RefCount(hist[i].before) = <<"a", "b", "c">>
        /\ hist[i].err # Nil

----------------------------------------------------------------------------
(* LifecyclePoller *)

interval == 6        \* const interval of the three waits

podsSleep == 1       \* waitPodsReady sleeps 1 * time.Second

terminateCap == 10   \* waitPodTerminate gives up when times > 10

PodPending == "Pending"

PodRunning == "Running"

Phases == {PodPending, PodRunning, "Succeeded", "Failed", "Unknown"}

Labels == "kt-component=shadow"

ListedNames == <<"shadow-a", "shadow-b", "shadow-c", "shadow-d">>

Timeouts == (0 - NegTimeout)..MaxTimeout

NoPod == [name |-> "", phase |-> "", deleting |-> FALSE]

Pod(name, phase, deleting) == [name |-> name, phase |-> phase, deleting |-> deleting]

\* What GetPod can answer: the pod in some phase, terminating or not, or an error.
GetResults(name) ==
    {[pod |-> Pod(name, p, d), items |-> <<>>, err |-> Nil] : p \in Phases, d \in BOOLEAN}
        \cup {[pod |-> NoPod, items |-> <<>>, err |-> e] : e \in {ErrNotFound(name), ErrServer}}

\* What GetPodsByLabel can answer: up to MaxPods pods, or an error.
ListResults ==
    UNION {{[pod |-> NoPod, err |-> Nil,
             items |-> [i \in 1..n |-> Pod(ListedNames[i], ph[i], FALSE)]] :
                ph \in [1..n -> Phases]} : n \in 0..MaxPods}
        \cup {[pod |-> NoPod, items |-> <<>>, err |-> ErrServer]}

ErrFailedToStart(name) == <<"pod ", name, " failed to start">>

ErrLabelNotFound(labels) == <<"pod with label ", labels, " not found">>

ErrStillTerminating(name) == <<"pod '", name, "' still terminating, please try again later">>

\* One invocation ends by returning (pod, pods, err) ...
Return(fetch, sleepBefore, pod, pods, err) ==
    [fetch |-> fetch, sleepBefore |-> sleepBefore, sleepAfter |-> 0, again |-> FALSE,
     pod |-> pod, pods |-> pods, err |-> err]

\* ... or by calling itself with times + 1.
Recurse(sleepBefore, sleepAfter) ==
    [fetch |-> 1, sleepBefore |-> sleepBefore, sleepAfter |-> sleepAfter, again |-> TRUE,
     pod |-> NoPod, pods |-> <<>>, err |-> Nil]

\* The pods in Running phase, in the order of the list.
filterRunningPods(items) == SelectSeq(items, LAMBDA p : p.phase = PodRunning)

\* waitPodsReady that gives the generic error whatever the list holds.
waitPodsReadyGenericError(labels, timeoutSec, times, got) ==
    IF got.err # Nil THEN Return(1, 0, NoPod, <<>>, got.err)
    ELSE IF times > Quot(timeoutSec, interval)
    THEN Return(1, 0, NoPod, <<>>,
                ErrFailedToStart(IF Len(got.items) < 1 THEN "" ELSE got.items[1].name))
    ELSE LET runningPods == filterRunningPods(got.items)
         IN  IF Len(runningPods) > 0 THEN Return(1, 0, NoPod, runningPods, Nil)
             ELSE Recurse(0, podsSleep)

\* waitPodsReady that returns the whole list once one pod of it runs.
waitPodsReadyUnfiltered(labels, timeoutSec, times, got) ==
    IF got.err # Nil THEN Return(1, 0, NoPod, <<>>, got.err)
    ELSE IF times > Quot(timeoutSec, interval)
    THEN IF Len(got.items) < 1
         THEN Return(1, 0, NoPod, <<>>, ErrLabelNotFound(labels))
         ELSE Return(1, 0, NoPod, <<>>, ErrFailedToStart(got.items[1].name))
    ELSE LET runningPods == filterRunningPods(got.items)
         IN  IF Len(runningPods) > 0 THEN Return(1, 0, NoPod, got.items, Nil)
             ELSE Recurse(0, podsSleep)

\* waitPodsReady that names the last pod of the list when it gives up.
waitPodsReadyNamesLast(labels, timeoutSec, times, got) ==
    IF got.err # Nil THEN Return(1, 0, NoPod, <<>>, got.err)
    ELSE IF times > Quot(timeoutSec, interval)
    THEN IF Len(got.items) < 1
         THEN Return(1, 0, NoPod, <<>>, ErrLabelNotFound(labels))
         ELSE Return(1, 0, NoPod, <<>>, ErrFailedToStart(got.items[Len(got.items)].name))
    ELSE LET runningPods == filterRunningPods(got.items)
         IN  IF Len(runningPods) > 0 THEN Return(1, 0, NoPod, runningPods, Nil)
             ELSE Recurse(0, podsSleep)

\* One invocation of waitPodsReady; got is what GetPodsByLabel answers.
waitPodsReady(labels, timeoutSec, times, got) ==
    IF got.err # Nil THEN Return(1, 0, NoPod, <<>>, got.err)
    ELSE IF times > Quot(timeoutSec, interval)
    THEN IF Len(got.items) < 1
         THEN Return(1, 0, NoPod, <<>>, ErrLabelNotFound(labels))
         ELSE Return(1, 0, NoPod, <<>>, ErrFailedToStart(got.items[1].name))
    ELSE LET runningPods == filterRunningPods(got.items)
         IN  IF Len(runningPods) > 0 THEN Return(1, 0, NoPod, runningPods, Nil)
             ELSE Recurse(0, podsSleep)

\* waitPodReady that allows one invocation more than the budget.
waitPodReadyLateBudget(name, timeoutSec, times, got) ==
    IF times > Quot(timeoutSec, interval) + 1
    THEN Return(0, 0, NoPod, <<>>, ErrFailedToStart(name))
    ELSE IF got.err # Nil THEN Return(1, 0, NoPod, <<>>, got.err)
    ELSE IF got.pod.phase # PodRunning THEN Recurse(0, interval)
    ELSE Return(1, 0, got.pod, <<>>, got.err)

\* waitPodReady that sleeps before its Get as waitPodTerminate does.
waitPodReadySleepFirst(name, timeoutSec, times, got) ==
    IF times > Quot(timeoutSec, interval)
    THEN Return(0, 0, NoPod, <<>>, ErrFailedToStart(name))
    ELSE IF got.err # Nil THEN Return(1, interval, NoPod, <<>>, got.err)
    ELSE IF got.pod.phase # PodRunning THEN Recurse(interval, 0)
    ELSE Return(1, interval, got.pod, <<>>, got.err)

\* waitPodReady that takes an error of GetPod for "not ready yet".
waitPodReadyRetryOnError(name, timeoutSec, times, got) ==
    IF times > Quot(timeoutSec, interval)
    THEN Return(0, 0, NoPod, <<>>, ErrFailedToStart(name))
    ELSE IF got.err # Nil \/ got.pod.phase # PodRunning THEN Recurse(0, interval)
    ELSE Return(1, 0, got.pod, <<>>, got.err)

\* One invocation of waitPodReady; got is what GetPod answers when asked.
waitPodReady(name, timeoutSec, times, got) ==
    IF times > Quot(timeoutSec, interval)
    THEN Return(0, 0, NoPod, <<>>, ErrFailedToStart(name))
    ELSE IF got.err # Nil THEN Return(1, 0, NoPod, <<>>, got.err)
    ELSE IF got.pod.phase # PodRunning THEN Recurse(0, interval)
    ELSE Return(1, 0, got.pod, <<>>, got.err)

\* waitPodTerminate that takes a NotFound answer for success.
waitPodTerminateNotFoundOk(name, times, got) ==
    IF times > terminateCap
    THEN Return(0, 0, NoPod, <<>>, ErrStillTerminating(name))
    ELSE IF got.err # Nil
    THEN Return(1, interval, NoPod, <<>>, IF IsNotFound(got.err) THEN Nil ELSE got.err)
    ELSE IF got.pod.deleting THEN Recurse(interval, 0)
    ELSE Return(1, interval, got.pod, <<>>, Nil)

\* waitPodTerminate that gives up when times reaches the cap.
waitPodTerminateEarlyCap(name, times, got) ==
    IF times >= terminateCap
    THEN Return(0, 0, NoPod, <<>>, ErrStillTerminating(name))
    ELSE IF got.err # Nil THEN Return(1, interval, NoPod, <<>>, got.err)
    ELSE IF got.pod.deleting THEN Recurse(interval, 0)
    ELSE Return(1, interval, got.pod, <<>>, Nil)

\* One invocation of waitPodTerminate; got is what GetPod answers when asked.
waitPodTerminate(name, times, got) ==
    IF times > terminateCap
    THEN Return(0, 0, NoPod, <<>>, ErrStillTerminating(name))
    ELSE IF got.err # Nil THEN Return(1, interval, NoPod, <<>>, got.err)
    ELSE IF got.pod.deleting THEN Recurse(interval, 0)
    ELSE Return(1, interval, got.pod, <<>>, Nil)

InitWait ==
    /\ annotations = MapOf(KtRefCount, <<"1">>)
    /\ hist = <<>>
    /\ WaitIdle
    /\ race = NoRace
    /\ exec = NoExec

\* The exported wrappers start the recursion with times = 0.
Begin(name, t) ==
    /\ pc = "idle"
    /\ pc' = "run"
    /\ fn' = name
    /\ callTimeout' = t
    /\ callTimes' = 0
    /\ UNCHANGED <<gets, sleeps, clock, fetchAt, obs, emptyLists, last, ret, refVars,
                   race, exec>>

WaitPodReady == \E t \in Timeouts : Begin("waitPodReady", t)

WaitPodsReady == \E t \in Timeouts : Begin("waitPodsReady", t)

WaitPodTerminate == Begin("waitPodTerminate", 0)

Naps(r) == (IF r.sleepBefore > 0 THEN 1 ELSE 0) + (IF r.sleepAfter > 0 THEN 1 ELSE 0)

\* One invocation ran with outcome r, the store having answered got.
Invoke(r, got) ==
    /\ gets' = gets + r.fetch
    /\ fetchAt' = IF r.fetch = 1 THEN Append(fetchAt, clock + r.sleepBefore) ELSE fetchAt
    /\ last' = IF r.fetch = 1 THEN got ELSE last
    /\ obs' = IF r.fetch = 1 /\ fn = "waitPodReady" /\ got.err = Nil
              THEN Append(obs, got.pod.phase) ELSE obs
    /\ emptyLists' = IF r.fetch = 1 /\ fn = "waitPodsReady" /\ got.err = Nil
                        /\ got.items = <<>>
                     THEN emptyLists + 1 ELSE emptyLists
    /\ sleeps' = sleeps + Naps(r)
    /\ clock' = clock + r.sleepBefore + r.sleepAfter
    /\ IF r.again
       THEN /\ callTimes' = callTimes + 1
            /\ UNCHANGED <<pc, ret>>
       ELSE /\ pc' = "done"
            /\ ret' = [pod |-> r.pod, pods |-> r.pods, err |-> r.err]
            /\ UNCHANGED callTimes
    /\ UNCHANGED <<fn, callTimeout, refVars, race, exec>>

WaitPodReadyStep ==
    /\ pc = "run" /\ fn = "waitPodReady"
    /\ \E got \in GetResults(PodName) :
          Invoke(waitPodReady(PodName, callTimeout, callTimes, got), got)

WaitPodsReadyStep ==
    /\ pc = "run" /\ fn = "waitPodsReady"
    /\ \E got \in ListResults :
          Invoke(waitPodsReady(Labels, callTimeout, callTimes, got), got)

WaitPodTerminateStep ==
    /\ pc = "run" /\ fn = "waitPodTerminate"
    /\ \E got \in GetResults(PodName) :
          Invoke(waitPodTerminate(PodName, callTimes, got), got)

NextWait ==
    \/ WaitPodReady
    \/ WaitPodsReady
    \/ WaitPodTerminate
    \/ WaitPodReadyStep
    \/ WaitPodsReadyStep
    \/ WaitPodTerminateStep

SpecWait == InitWait /\ [][NextWait]_vars

----------------------------------------------------------------------------
(* Properties of the LifecyclePoller *)

Done(name) == fn = name /\ pc = "done"

\* No Get of the wait answered with an error: an error ends the wait, so
\* only the latest answer can be one.
NoFetchError == last = <<>> \/ last.err = Nil

NeverRunning == \A i \in 1..Len(obs) : obs[i] # PodRunning

\* The fetches waitPodReady may make: Go's timeoutSec / interval, plus one.
ReadyBudget == IF callTimeout <= 0 - interval THEN 0 ELSE Quot(callTimeout, interval) + 1

\* C1 as stated: for every timeoutSec, waitPodReady makes at most
\* floor(timeoutSec / 6) + 1 Get calls.
C1_Original == fn = "waitPodReady" => gets <= (callTimeout \div interval) + 1

\* C1 amended: for every timeoutSec >= 0, a waitPodReady that never sees a
\* Running pod and never gets an error makes at most floor(timeoutSec/6)+1
\* Get calls and then fails with the "failed to start" error that names the
\* pod.  For a negative timeoutSec the quotient is Go's, rounded toward zero:
\* one Get for -5..-1, none from -6 down.
C1_ReadyFetchBudget ==
    fn = "waitPodReady" =>
        /\ gets <= ReadyBudget
        /\ callTimeout >= 0 => ReadyBudget = (callTimeout \div interval) + 1
        /\ (pc = "done" /\ NeverRunning /\ NoFetchError) =>
              /\ ret.err = ErrFailedToStart(PodName)
              /\ ret.pod = NoPod
              /\ gets = ReadyBudget

C1_Witness ==
    /\ Done("waitPodReady")
    /\ callTimeout = 13
    /\ gets = 3
    /\ NeverRunning /\ NoFetchError
    /\ ret.err = ErrFailedToStart(PodName)

\* C2 as stated: a NotFound answer to the Get of waitPodTerminate ends the
\* wait at once with success, no error going back to the caller.
C2_Original ==
    (fn = "waitPodTerminate" /\ last # <<>> /\ IsNotFound(last.err))
        => (pc = "done" /\ ret.err = Nil)

\* C2 amended: a NotFound answer to the Get of waitPodTerminate ends the
\* wait at once, on whichever attempt it comes, and the wait returns a nil
\* pod together with that NotFound error: the caller is the one who reads
\* NotFound as "terminated".
C2_NotFoundEndsTerminateWait ==
    (fn = "waitPodTerminate" /\ last # <<>> /\ IsNotFound(last.err))
        => /\ pc = "done"
           /\ ret.err = ErrNotFound(PodName)
           /\ ret.pod = NoPod
           /\ gets = callTimes + 1

C2_Witness ==
    /\ Done("waitPodTerminate")
    /\ IsNotFound(last.err)
    /\ gets = 4
    /\ ret.err = ErrNotFound(PodName)

\* C8: a waitPodReady that returns no error returns a pod in Running phase;
\* a waitPodsReady that returns no error returns at least one pod, and only
\* pods in Running phase.
C8_SuccessIsRunning ==
    /\ (Done("waitPodReady") /\ ret.err = Nil) => ret.pod.phase = PodRunning
    /\ (Done("waitPodsReady") /\ ret.err = Nil) =>
          /\ Len(ret.pods) >= 1
          /\ \A i \in 1..Len(ret.pods) : ret.pods[i].phase = PodRunning

C8_Witness ==
    /\ Done("waitPodsReady")
    /\ ret.err = Nil
    /\ Len(last.items) = 2
    /\ Len(ret.pods) = 1
    /\ gets = 2

\* C9: when the Get calls of waitPodReady see k-1 phases other than Running
\* and then Running, with k <= floor(timeoutSec/6)+1 and no error, the wait
\* returns the pod of the k-th Get after exactly k Gets and k-1 sleeps of 6
\* seconds; it gives up only after floor(timeoutSec/6)+1 Gets, so such a
\* k-th Get is always made.  [Pending, Pending, Running] returns on Get 3.
C9_ReturnsOnFirstRunning ==
    /\ (Done("waitPodReady") /\ ret.err = Nil) =>
          /\ gets = Len(obs)
          /\ obs[gets] = PodRunning
          /\ \A i \in 1..(gets - 1) : obs[i] # PodRunning
          /\ sleeps = gets - 1
          /\ clock = interval * (gets - 1)
          /\ ret.pod = last.pod
    /\ (fn = "waitPodReady" /\ obs # <<>> /\ obs[Len(obs)] = PodRunning) =>
          (pc = "done" /\ ret.err = Nil)
    /\ (Done("waitPodReady") /\ ret.err = ErrFailedToStart(PodName)) =>
          gets >= (callTimeout \div interval) + 1
    /\ (Done("waitPodReady") /\ obs = <<PodPending, PodPending, PodRunning>>) =>
          (ret.err = Nil /\ gets = 3 /\ sleeps = 2 /\ ret.pod.phase = PodRunning)

C9_Witness ==
    /\ Done("waitPodReady")
    /\ obs = <<PodPending, PodPending, PodRunning>>
    /\ gets = 3
    /\ ret.pod = last.pod

\* C10: a waitPodsReady whose every List returns no pod fails with the
\* "pod with label ... not found" error that names the selector, not with
\* the "failed to start" error.
C10_EmptySetIsNotFound ==
    (Done("waitPodsReady") /\ emptyLists = gets) =>
        /\ ret.err = ErrLabelNotFound(Labels)
        /\ ret.pods = <<>>

C10_Witness ==
    /\ Done("waitPodsReady")
    /\ emptyLists = gets
    /\ gets = 4
    /\ ret.err = ErrLabelNotFound(Labels)

\* C13 as stated: waitPodTerminate makes at most 10 sleep-then-fetch
\* attempts before it fails with the "still terminating" error.
C13_Original == fn = "waitPodTerminate" => gets <= terminateCap

\* C13 amended: waitPodTerminate takes no timeout and gives up when
\* times > 10, so while every Get returns a pod with a deletion timestamp it
\* makes 11 sleep-then-fetch attempts (times 0..10) and then fails with the
\* "still terminating" error; each attempt sleeps 6 seconds before its Get.
C13_TerminateCap ==
    fn = "waitPodTerminate" =>
        /\ gets <= terminateCap + 1
        /\ sleeps = gets
        /\ \A i \in 1..Len(fetchAt) : fetchAt[i] = interval * i
        /\ (pc = "done" /\ ret.err = ErrStillTerminating(PodName)) =>
              /\ gets = terminateCap + 1
              /\ last.err = Nil /\ last.pod.deleting
              /\ clock = interval * (terminateCap + 1)

C13_Witness ==
    /\ Done("waitPodTerminate")
    /\ ret.err = ErrStillTerminating(PodName)
    /\ gets = 11
    /\ clock = 66

\* C14: every List of waitPodsReady that returns at least one Running pod
\* makes the wait succeed with exactly the Running pods of that list, the
\* last List of the retry budget included.
C14_RunningListSucceeds ==
    (/\ fn = "waitPodsReady"
     /\ last # <<>>
     /\ last.err = Nil
     /\ filterRunningPods(last.items) # <<>>)
        => /\ pc = "done"
           /\ ret.err = Nil
           /\ ret.pods = filterRunningPods(last.items)

\* waitPodsReady gave up: its last invocation found times > timeoutSec / 6.
GaveUp ==
    /\ Done("waitPodsReady")
    /\ last.err = Nil
    /\ callTimes > Quot(callTimeout, interval)

\* C15 as stated: giving up, waitPodsReady fails with the label-not-found
\* error if any List of the wait was empty, and otherwise with the "failed
\* to start" error naming a pod that is not Running.
C15_Original ==
    GaveUp =>
        IF emptyLists > 0
        THEN ret.err = ErrLabelNotFound(Labels)
        ELSE \E i \in 1..Len(last.items) :
                /\ last.items[i].phase # PodRunning
                /\ ret.err = ErrFailedToStart(last.items[i].name)

\* C15 amended: giving up, waitPodsReady fails with the label-not-found
\* error if the List of its final invocation was empty, and otherwise with
\* the "failed to start" error naming the first pod of that final list,
\* whatever the phase of that pod and whatever earlier Lists returned.
C15_GiveUpError ==
    GaveUp =>
        /\ ret.pods = <<>>
        /\ IF last.items = <<>>
           THEN ret.err = ErrLabelNotFound(Labels)
           ELSE ret.err = ErrFailedToStart(last.items[1].name)

C15_Witness ==
    /\ GaveUp
    /\ emptyLists = 1
    /\ gets = 3
    /\ Len(last.items) = 2
    /\ ret.err = ErrFailedToStart(last.items[1].name)

\* C16: in each of the three waits the clock advances by exactly 6 between
\* two consecutive fetches, so a wait that gives up on its budget
\* floor(timeoutSec/6) has slept at least 6 * floor(timeoutSec/6).
C16_SameInterval ==
    /\ \A i \in 1..(Len(fetchAt) - 1) : fetchAt[i + 1] - fetchAt[i] = interval
    /\ (/\ pc = "done"
        /\ fn \in {"waitPodReady", "waitPodsReady"}
        /\ callTimes > Quot(callTimeout, interval)
        /\ callTimeout >= 0)
          => clock >= interval * (callTimeout \div interval)

\* C19: in waitPodReady and waitPodsReady a Get/List that returns an error
\* ends the wait at once with that same error: no sleep and no fetch comes
\* after it, and the error is not turned into a timeout.
C19_FetchErrorPropagates ==
    (/\ fn \in {"waitPodReady", "waitPodsReady"}
     /\ last # <<>>
     /\ last.err # Nil)
        => /\ pc = "done"
           /\ ret.err = last.err
           /\ ret.pod = NoPod /\ ret.pods = <<>>
           /\ clock = fetchAt[gets]
           /\ gets = callTimes + 1

C19_Witness ==
    /\ Done("waitPodReady")
    /\ gets = 3
    /\ last.err = ErrServer
    /\ ret.err = ErrServer
    /\ clock = 12

\* The first i calls of the history are DecreasePodRef calls whose GetPod
\* worked and that returned no error, the first finding the count N.
Decrements(i, N) ==
    /\ i <= Len(hist)
    /\ RefCount(hist[1].before) = Itoa(N)
    /\ \A j \in 1..i : Fetched(j, "DecreasePodRef") /\ hist[j].err = Nil

\* C20: from a stored count N >= 1, of N DecreasePodRef calls in a row
\* exactly the N-th returns cleanup = true; every earlier one writes the
\* count less 1 and returns cleanup = false; the stored count never goes
\* below "1".
C20_LastDecrementCleans ==
    \A N \in 1..MaxRef, i \in 1..Len(hist) :
        (Decrements(i, N) /\ i <= N) =>
            /\ hist[i].cleanup <=> (i = N)
            /\ i < N => (hist[i].updates = 1 /\ RefCount(hist[i].after) = Itoa(N - i))
            /\ i = N => (hist[i].updates = 0 /\ hist[i].after = hist[i].before)
            /\ Atoi(RefCount(hist[i].after)).val >= 1

C20_Witness ==
    /\ Decrements(3, 3)
    /\ hist[3].cleanup
    /\ ~hist[2].cleanup
    /\ RefCount(annotations) = <<"1">>

----------------------------------------------------------------------------
(* Properties of two IncreasePodRef calls at once *)

BothSucceeded == \A c \in Callers : race.calls[c].at = "done" /\ race.calls[c].err = Nil

\* C18: with a store that takes any write, two IncreasePodRef calls at once
\* on a pod whose count is N, both returning no error, leave the count at
\* N+1 or at N+2, never below or above; N+1, a lost update, does happen.
C18_LostUpdateBounds ==
    \A N \in 0..MaxRef :
        (BothSucceeded /\ RefCount(race.start) = Itoa(N))
            => RefCount(annotations) \in {Itoa(N + 1), Itoa(N + 2)}

C18_Witness ==
    /\ BothSucceeded
    /\ RefCount(race.start) = <<"9">>
    /\ RefCount(annotations) = <<"1", "0">>
    /\ \A c \in Callers : RefCount(race.calls[c].pod) = <<"9">>

----------------------------------------------------------------------------
(* Properties of the ExecBridge *)

\* The message embedded in the stderr text ExecInPod returned.
Embedded == ExtractErrorMessage(exec.ret.stderr)

Clean(s) ==
    /\ \A i \in 1..Len(s) : s[i] # Esc
    /\ s # <<>> => (s[1] # Blank /\ s[Len(s)] # Blank)

\* C11: when the stream reports no error and the returned stderr holds an
\* embedded message, ExecInPod returns an error whose message is that
\* message; when the stream reports no error and no message is embedded,
\* it returns a nil error.
C11_MessageBecomesError ==
    (exec.at = "done" /\ exec.transportErr = Nil) =>
        IF Embedded # <<>>
        THEN exec.ret.err # Nil /\ exec.ret.err = Embedded
        ELSE exec.ret.err = Nil

\* C12: the stdout and stderr ExecInPod returns hold no escape sequence and
\* neither start nor end with a blank: they are the buffers with the escape
\* sequences stripped first and the blanks trimmed after.
C12_OutputIsClean ==
    exec.at = "done" =>
        /\ Clean(exec.ret.stdout)
        /\ Clean(exec.ret.stderr)
        /\ exec.ret.stdout = TrimSpace(RemoveColor(exec.stdout))
        /\ exec.ret.stderr = TrimSpace(RemoveColor(exec.stderr))

\* C17 as stated: whenever ExecInPod returns an error and the stderr holds
\* an embedded message, the error is the one made from that message, also
\* when the stream itself failed.
C17_Original ==
    (exec.at = "done" /\ exec.ret.err # Nil /\ Embedded # <<>>)
        => exec.ret.err = Errorf(Embedded)

\* C17 amended: when the stream itself failed, ExecInPod returns the error
\* of the stream as it is, with or without an embedded message in stderr;
\* the error made from the embedded message is returned only when the
\* stream reported none; with neither, the error is nil.
C17_TransportErrorWins ==
    exec.at = "done" =>
        /\ exec.transportErr # Nil => exec.ret.err = exec.transportErr
        /\ (exec.transportErr = Nil /\ Embedded # <<>>) => exec.ret.err = Errorf(Embedded)
        /\ (exec.transportErr = Nil /\ Embedded = <<>>) => exec.ret.err = Nil

C17_Witness ==
    /\ exec.at = "done"
    /\ exec.transportErr = ErrStream
    /\ Embedded = <<Letter>>
    /\ exec.ret.err = ErrStream

====
